---------------------------- MODULE Spec2Model ----------------------------
(***************************************************************************)
(* A model of the SSDP discovery endpoint of SoapyRemote                   *)
(* (common/SoapySSDPEndpoint.cpp): the process-wide shared instance, its    *)
(* per-address-family handler threads, the discovery cache, the periodic   *)
(* triggers and the message dispatch.                                      *)
(*                                                                         *)
(* Strings are sequences of tokens (a token is a TLA+ string); the empty   *)
(* std::string is << >>.  Times are whole seconds.                         *)
(***************************************************************************)
EXTENDS Integers, Sequences, FiniteSets, TLC

(* ------------------------------------------------------------------ *)
(* Program constants                                                   *)
(* ------------------------------------------------------------------ *)

SSDP_MULTICAST_ADDR_IPV4 == "239.255.255.250"

SSDP_MULTICAST_ADDR_IPV6 == "ff02::c"

SSDP_UDP_PORT_NUMBER == "1900"

SOAPY_REMOTE_TARGET == "urn:schemas-pothosware-com:service:soapyRemote:1"

TRIGGER_TIMEOUT_SECONDS == 60

CACHE_DURATION_SECONDS == 120

NTS_ALIVE == <<"ssdp:alive">>

NTS_BYEBYE == <<"ssdp:byebye">>

(* ------------------------------------------------------------------ *)
(* Bounds of the model                                                 *)
(* ------------------------------------------------------------------ *)

\* Endpoint objects constructed during one run of the process
MaxInst == 2

\* clock advances during one run
MaxTicks == 2

\* datagrams delivered to the handlers during one run
MaxRecv == 2

\* public calls (register, enable, query) made during one run
MaxCalls == 2

(* ------------------------------------------------------------------ *)
(* std::string helpers (positions are 0-based as in C++)               *)
(* ------------------------------------------------------------------ *)

npos == -1

\* the string s from position p to its end: s.substr(p)
substr(s, p) == SubSeq(s, p + 1, Len(s))

\* s.find(sub): the first position where sub occurs in s, else npos
find(s, sub) ==
    LET hits == {p \in 0..(Len(s) - Len(sub)) :
                    SubSeq(s, p + 1, p + Len(sub)) = sub}
    IN  IF hits = {} THEN npos
        ELSE CHOOSE p \in hits : \A q \in hits : p <= q

isspace(c) == c \in {" ", "\t"}

isdigit(c) == c \in {"0", "1", "2", "3", "4", "5", "6", "7", "8", "9"}

digitValue(c) ==
    CASE c = "0" -> 0 [] c = "1" -> 1 [] c = "2" -> 2 [] c = "3" -> 3
      [] c = "4" -> 4 [] c = "5" -> 5 [] c = "6" -> 6 [] c = "7" -> 7
      [] c = "8" -> 8 [] c = "9" -> 9

\* the characters of std::to_string(n) for the number the program prints
to_string(n) == IF n = 120 THEN <<"1", "2", "0">> ELSE <<"?">>

\* a call that returned v, and a call that threw an exception
Returned(v) == [threw |-> FALSE, val |-> v]

Threw == [threw |-> TRUE, val |-> 0]

\* position of the first character of s at or after p that is no white space
RECURSIVE skipSpace(_, _)
skipSpace(s, p) ==
    IF p < Len(s) /\ isspace(s[p + 1]) THEN skipSpace(s, p + 1) ELSE p

\* the value of the leading decimal digits of s from position p on
RECURSIVE digitsValue(_, _, _)
digitsValue(s, p, acc) ==
    IF p < Len(s) /\ isdigit(s[p + 1])
    THEN digitsValue(s, p + 1, acc * 10 + digitValue(s[p + 1]))
    ELSE acc

\* std::stoul(s) converted to the int that getCacheDuration returns: white
\* space, an optional sign, decimal digits; throws when there is no digit.
\* A negated value is the unsigned long 2^64 - v, which converts to the int
\* -v.  The max-age values of the model have one digit, so no value
\* leaves the range of a 32-bit int.
stoul(s) ==
    LET p0   == skipSpace(s, 0)
        sign == p0 < Len(s) /\ s[p0 + 1] \in {"+", "-"}
        neg  == p0 < Len(s) /\ s[p0 + 1] = "-"
        p1   == IF sign THEN p0 + 1 ELSE p0
        some == p1 < Len(s) /\ isdigit(s[p1 + 1])
        v    == digitsValue(s, p1, 0)
    IN  IF ~some THEN Threw
        ELSE IF neg THEN Returned(0 - v)
        ELSE Returned(v)

(* ------------------------------------------------------------------ *)
(* SoapyURL: scheme://node:service                                     *)
(* ------------------------------------------------------------------ *)

SoapyURL(scheme, node, service) ==
    [scheme |-> scheme, node |-> node, service |-> service]

\* SoapyURL::toString
toString(url) ==
    IF url.scheme = "" THEN <<url.node, ":", url.service>>
    ELSE <<url.scheme, "://", url.node, ":", url.service>>

\* SoapyURL::SoapyURL(const std::string &)
parseURL(s) ==
    IF Len(s) = 5 /\ s[2] = "://" /\ s[4] = ":" THEN SoapyURL(s[1], s[3], s[5])
    ELSE IF Len(s) = 3 /\ s[2] = ":" THEN SoapyURL("", s[1], s[3])
    ELSE IF Len(s) = 1 THEN SoapyURL("", s[1], "")
    ELSE SoapyURL("", "", "")

(* ------------------------------------------------------------------ *)
(* SoapyHTTPHeader: a start line and a field map; an absent field      *)
(* reads as the empty string                                           *)
(* ------------------------------------------------------------------ *)

SoapyHTTPHeader(line0) == [line0 |-> line0, fields |-> [f \in {} |-> << >>]]

addField(header, key, value) ==
    [header EXCEPT !.fields =
        [f \in DOMAIN header.fields \cup {key} |->
            IF f = key THEN value ELSE header.fields[f]]]

getLine0(header) == header.line0

getField(header, key) ==
    IF key \in DOMAIN header.fields THEN header.fields[key] ELSE << >>

\* "uuid:" + uuid
uuidTarget(uuid) == <<"uuid:">> \o uuid

\* "uuid:" + uuid + "::" + SOAPY_REMOTE_TARGET
usnOf(uuid) == <<"uuid:">> \o uuid \o <<"::", SOAPY_REMOTE_TARGET>>

(* ------------------------------------------------------------------ *)
(* getCacheDuration                                                    *)
(* ------------------------------------------------------------------ *)

\* std::string::at throws when the position is not inside the string
\* while (std::isspace(cacheControl.at(valuePos))) valuePos++;
RECURSIVE skipSpaceAt(_, _)
skipSpaceAt(s, p) ==
    IF p >= Len(s) THEN Threw
    ELSE IF isspace(s[p + 1]) THEN skipSpaceAt(s, p + 1)
    ELSE Returned(p)

getCacheDuration(header) ==
    LET cacheControl == getField(header, "CACHE-CONTROL")
        maxAgePos    == find(cacheControl, <<"m", "a", "x", "-", "a", "g", "e">>)
        equalsPos    == find(cacheControl, <<"=">>)
        valuePos     == skipSpaceAt(cacheControl, equalsPos + 1)
        maxAge       == stoul(substr(cacheControl, valuePos.val))
    IN  IF cacheControl = << >> THEN Returned(CACHE_DURATION_SECONDS)
        ELSE IF maxAgePos = npos THEN Returned(CACHE_DURATION_SECONDS)
        ELSE IF equalsPos = npos THEN Returned(CACHE_DURATION_SECONDS)
        ELSE IF maxAgePos > equalsPos THEN Returned(CACHE_DURATION_SECONDS)
        ELSE IF valuePos.threw THEN Threw
        ELSE IF maxAge.threw THEN Returned(CACHE_DURATION_SECONDS)
        ELSE Returned(maxAge.val)

(* ------------------------------------------------------------------ *)
(* State                                                               *)
(* ------------------------------------------------------------------ *)

\* the threads of the platform that use the endpoint
Clients == {"c1", "c2"}

Instances == 1..MaxInst

VARIABLES
    now,                \* std::chrono::high_resolution_clock::now(), seconds
    ticks,              \* clock advances so far
    recvs,              \* datagrams delivered so far
    calls,              \* public calls made so far
    epWeak,             \* getInstance: static std::weak_ptr, 0 when empty
    useCount,           \* shared_ptr use count of each Endpoint object
    built,              \* Endpoint objects constructed so far
    blacklistedGroups,  \* spawnHandler: static std::set of group addresses
    held,               \* the shared_ptr each client holds, 0 for none
    ep,                 \* the Endpoint objects
    mutex,              \* SoapySSDPEndpoint::mutex of each object: its holder
    aborted,            \* the process was ended by std::terminate
    out                 \* what the last step did: the call and its outputs

\* the state of getInstance and of the shared_ptr holders
singleton == <<epWeak, useCount, built, blacklistedGroups, held>>

vars == <<now, ticks, recvs, calls, singleton, ep, mutex, aborted, out>>

\* std::map<std::string, ...> with no entry
EmptyMap == [u \in {} |-> << >>]

\* an erase that removes nothing
mapErase_keep(m, key) == m

\* usnToURL.erase(usn)
mapErase(m, key) == [u \in DOMAIN m \ {key} |-> m[u]]

\* usnToURL[usn] = value
mapPut(m, key, value) ==
    [u \in DOMAIN m \cup {key} |-> IF u = key THEN value ELSE m[u]]

\* new SoapySSDPEndpointData(): value-initialised, the time points are zero
SoapySSDPEndpointData ==
    [ipVer |-> 0, groupURL |-> << >>, pc |-> "new", endedBy |-> "",
     lastTimeSearch |-> 0, lastTimeNotify |-> 0, usnToURL |-> EmptyMap,
     byes |-> 0]

\* a SoapySSDPEndpointData after delete
DeletedData == [SoapySSDPEndpointData EXCEPT !.pc = "deleted"]

\* the members of SoapySSDPEndpoint as the constructor's initialiser list
\* leaves them
NewEndpoint ==
    [life |-> "live", serviceRegistered |-> FALSE, uuid |-> << >>,
     service |-> "", periodicSearchEnabled |-> FALSE,
     periodicNotifyEnabled |-> FALSE, done |-> FALSE, handlers |-> << >>,
     joined |-> 0, dtorBy |-> ""]

\* storage that holds no Endpoint (before construction, after destruction)
NoEndpoint == [NewEndpoint EXCEPT !.life = "none"]

DestroyedEndpoint == [NewEndpoint EXCEPT !.life = "destroyed"]

\* the step that produced the current state
Event(op, i, k) ==
    [op |-> op, i |-> i, k |-> k, arg |-> << >>, sent |-> << >>,
     ret |-> << >>, pref |-> EmptyMap, locked |-> FALSE]

Init ==
    /\ now = 0
    /\ ticks = 0
    /\ recvs = 0
    /\ calls = 0
    /\ epWeak = 0
    /\ useCount = [i \in Instances |-> 0]
    /\ built = 0
    /\ blacklistedGroups = {}
    /\ held = [c \in Clients |-> 0]
    /\ ep = [i \in Instances |-> NoEndpoint]
    /\ mutex = [i \in Instances |-> "free"]
    /\ aborted = FALSE
    /\ out = Event("init", 0, 0)

\* a client whose thread is inside a destructor
InDestructor(c) == \E i \in Instances : ep[i].life = "dtor" /\ ep[i].dtorBy = c

(* ------------------------------------------------------------------ *)
(* spawnHandler and the constructor                                    *)
(* ------------------------------------------------------------------ *)

\* a spawnHandler that blacklists the group on a bind failure as well
spawnHandler_bindBlacklists(c, bindAddr, groupAddr, ipVer, joinRet, bindRet) ==
    LET groupURL == toString(SoapyURL("udp", groupAddr, SSDP_UDP_PORT_NUMBER))
        data     == [SoapySSDPEndpointData EXCEPT
                        !.ipVer = ipVer, !.groupURL = groupURL, !.pc = "loop"]
    IN  IF groupAddr \in c.blacklist THEN c
        ELSE IF joinRet # 0 \/ bindRet # 0
             THEN [c EXCEPT !.blacklist = c.blacklist \cup {groupAddr}]
        ELSE [c EXCEPT !.handlers = Append(c.handlers, data)]

\* spawnHandler on c = [handlers, blacklist]; joinRet and bindRet are what
\* the socket calls return
spawnHandler(c, bindAddr, groupAddr, ipVer, joinRet, bindRet) ==
    LET groupURL == toString(SoapyURL("udp", groupAddr, SSDP_UDP_PORT_NUMBER))
        data     == [SoapySSDPEndpointData EXCEPT
                        !.ipVer = ipVer, !.groupURL = groupURL, !.pc = "loop"]
    IN  IF groupAddr \in c.blacklist THEN c
        ELSE IF joinRet # 0
             THEN [c EXCEPT !.blacklist = c.blacklist \cup {groupAddr}]
        ELSE IF bindRet # 0 THEN c
        ELSE [c EXCEPT !.handlers = Append(c.handlers, data)]

\* SoapySSDPEndpoint::SoapySSDPEndpoint
construct(blacklist, isIPv6Supported, j4, b4, j6, b6) ==
    LET c0 == [handlers |-> << >>, blacklist |-> blacklist]
        c1 == spawnHandler(c0, "0.0.0.0", SSDP_MULTICAST_ADDR_IPV4, 4, j4, b4)
        c2 == IF isIPv6Supported
              THEN spawnHandler(c1, "::", SSDP_MULTICAST_ADDR_IPV6, 6, j6, b6)
              ELSE c1
    IN  c2

(* ------------------------------------------------------------------ *)
(* getInstance, and the release of a shared_ptr                        *)
(* ------------------------------------------------------------------ *)

\* a weak pointer that never yields its object
weakLock_expired(w, counts) == 0

\* epWeak.lock(): the object, unless its use count has reached zero
weakLock(w, counts) == IF w # 0 /\ counts[w] > 0 THEN w ELSE 0

\* SoapySSDPEndpoint::getInstance, called by client c; the process constructs
\* at most maxInst objects, and rets are the results multicastJoin and bind
\* may return (the event records them after "new")
GetInstance(c, maxInst, rets) ==
    /\ ~aborted /\ ~InDestructor(c) /\ held[c] = 0
    /\ LET epShared == weakLock(epWeak, useCount)
       IN  IF epShared # 0
           THEN /\ useCount' = [useCount EXCEPT ![epShared] = @ + 1]
                /\ epWeak' = epShared
                /\ held' = [held EXCEPT ![c] = epShared]
                /\ out' = [Event("getInstance", epShared, 0) EXCEPT
                              !.arg = <<"shared">>]
                /\ UNCHANGED <<built, blacklistedGroups, ep>>
           ELSE /\ built < maxInst
                /\ \E isIPv6Supported \in BOOLEAN, j4, b4, j6, b6 \in rets :
                     LET id == built + 1
                         c2 == construct(blacklistedGroups, isIPv6Supported,
                                         j4, b4, j6, b6)
                     IN  /\ built' = id
                         /\ blacklistedGroups' = c2.blacklist
                         /\ ep' = [ep EXCEPT ![id] =
                                [NewEndpoint EXCEPT !.handlers = c2.handlers]]
                         /\ useCount' = [useCount EXCEPT ![id] = 1]
                         /\ epWeak' = id
                         /\ held' = [held EXCEPT ![c] = id]
                         /\ out' = [Event("getInstance", id, 0) EXCEPT
                                       !.arg = <<"new", isIPv6Supported,
                                                 j4, b4, j6, b6>>]
    /\ UNCHANGED <<now, ticks, recvs, calls, mutex, aborted>>

\* the destructor's loop: joined handlers are deleted; with all joined the
\* object is gone
afterJoin(e, k) ==
    IF k = Len(e.handlers) THEN DestroyedEndpoint
    ELSE [e EXCEPT !.joined = k, !.handlers[k] = DeletedData]

\* ~SoapySSDPEndpoint up to its first join, run by client c
destructorStart(e, c) ==
    LET e1 == [e EXCEPT !.done = TRUE, !.life = "dtor", !.dtorBy = c]
    IN  IF Len(e.handlers) = 0 THEN DestroyedEndpoint ELSE e1

\* client c drops its shared_ptr; the last one out runs the destructor
Release(c) ==
    /\ ~aborted /\ ~InDestructor(c) /\ held[c] # 0
    /\ LET i == held[c]
       IN  /\ useCount' = [useCount EXCEPT ![i] = @ - 1]
           /\ held' = [held EXCEPT ![c] = 0]
           /\ ep' = IF useCount[i] = 1
                    THEN [ep EXCEPT ![i] = destructorStart(ep[i], c)]
                    ELSE ep
           /\ out' = Event("release", i, 0)
    /\ UNCHANGED <<now, ticks, recvs, calls, epWeak, built, blacklistedGroups, mutex, aborted>>

\* data->thread->join() returns for the next handler, whose thread has ended
DestructorJoin(i) ==
    /\ ~aborted /\ ep[i].life = "dtor"
    /\ LET k == ep[i].joined + 1
       IN  /\ ep[i].handlers[k].pc = "ended"
           /\ ep' = [ep EXCEPT ![i] = afterJoin(ep[i], k)]
           /\ out' = Event("join", i, k)
    /\ UNCHANGED <<now, ticks, recvs, calls, mutex, aborted, singleton>>

(* ------------------------------------------------------------------ *)
(* Outbound messages.  A call works on x = [e, sent, threw]: the       *)
(* Endpoint object, the datagrams handed to sendto so far, and whether *)
(* an exception is propagating.  k is the position in e.handlers of    *)
(* the SoapySSDPEndpointData the call is given, t the clock reading.   *)
(* ------------------------------------------------------------------ *)

\* SoapyInfo::getHostName and SoapyInfo::getUserAgent of this node
HostName == "localhost"

UserAgent == <<"SoapyRemote">>

Call(e) == [e |-> e, sent |-> << >>, threw |-> FALSE]

sendHeader(x, k, header, addr) ==
    [x EXCEPT !.sent = Append(@, [k |-> k, to |-> addr, hdr |-> header])]

\* SoapyURL(data->groupURL) with setScheme("")
hostURL(data) == [parseURL(data.groupURL) EXCEPT !.scheme = ""]

searchHeader(data) ==
    LET h0 == SoapyHTTPHeader("M-SEARCH * HTTP/1.1")
        h1 == addField(h0, "HOST", toString(hostURL(data)))
        h2 == addField(h1, "MAN", <<"\"ssdp:discover\"">>)
        h3 == addField(h2, "MX", <<"2">>)
        h4 == addField(h3, "ST", <<SOAPY_REMOTE_TARGET>>)
        h5 == addField(h4, "USER-AGENT", UserAgent)
    IN  h5

sendSearchHeader(x, k, t) ==
    LET data == x.e.handlers[k]
        x1   == sendHeader(x, k, searchHeader(data), data.groupURL)
    IN  [x1 EXCEPT !.e.handlers[k].lastTimeSearch = t]

notifyHeader(e, data, nts) ==
    LET h0 == SoapyHTTPHeader("NOTIFY * HTTP/1.1")
        h1 == addField(h0, "HOST", toString(hostURL(data)))
        h2 == IF nts = NTS_ALIVE
              THEN addField(
                     addField(h1, "CACHE-CONTROL",
                              <<"m", "a", "x", "-", "a", "g", "e", "=">>
                                \o to_string(CACHE_DURATION_SECONDS)),
                     "LOCATION", toString(SoapyURL("tcp", HostName, e.service)))
              ELSE h1
        h3 == addField(h2, "SERVER", UserAgent)
        h4 == addField(h3, "NT", <<SOAPY_REMOTE_TARGET>>)
        h5 == addField(h4, "USN", usnOf(e.uuid))
        h6 == addField(h5, "NTS", nts)
    IN  h6

\* an announcement that does not ask whether a service is registered
sendNotifyHeader_always(x, k, nts, t) ==
    LET data == x.e.handlers[k]
        x1   == sendHeader(x, k, notifyHeader(x.e, data, nts), data.groupURL)
    IN  [x1 EXCEPT !.e.handlers[k].lastTimeNotify = t,
                   !.e.handlers[k].byes =
                       IF nts = NTS_BYEBYE THEN @ + 1 ELSE @]

\* SoapySSDPEndpoint::sendNotifyHeader
sendNotifyHeader(x, k, nts, t) ==
    LET data == x.e.handlers[k]
        x1   == sendHeader(x, k, notifyHeader(x.e, data, nts), data.groupURL)
    IN  IF ~x.e.serviceRegistered THEN x
        ELSE [x1 EXCEPT !.e.handlers[k].lastTimeNotify = t,
                        !.e.handlers[k].byes =
                            IF nts = NTS_BYEBYE THEN @ + 1 ELSE @]

(* ------------------------------------------------------------------ *)
(* Message dispatch                                                    *)
(* ------------------------------------------------------------------ *)

responseHeader(e) ==
    LET h0 == SoapyHTTPHeader("HTTP/1.1 200 OK")
        h1 == addField(h0, "CACHE-CONTROL",
                       <<"m", "a", "x", "-", "a", "g", "e", "=">>
                         \o to_string(CACHE_DURATION_SECONDS))
        h2 == addField(h1, "DATE", <<"date">>)
        h3 == addField(h2, "EXT", << >>)
        h4 == addField(h3, "LOCATION",
                       toString(SoapyURL("tcp", HostName, e.service)))
        h5 == addField(h4, "SERVER", UserAgent)
        h6 == addField(h5, "ST", <<SOAPY_REMOTE_TARGET>>)
        h7 == addField(h6, "USN", usnOf(e.uuid))
    IN  h7

\* st == "ssdp:all" or st == SOAPY_REMOTE_TARGET or st == "uuid:"+uuid
stForUs(e, st) ==
    \/ st = <<"ssdp:all">>
    \/ st = <<SOAPY_REMOTE_TARGET>>
    \/ st = uuidTarget(e.uuid)

\* handleSearchRequest that answers the requester alone
handleSearchRequest_unicastOnly(x, k, request, recvAddr, t) ==
    IF ~x.e.serviceRegistered THEN x
    ELSE IF getField(request, "MAN") # <<"\"ssdp:discover\"">> THEN x
    ELSE IF ~stForUs(x.e, getField(request, "ST")) THEN x
    ELSE sendHeader(x, k, responseHeader(x.e), recvAddr)

handleSearchRequest(x, k, request, recvAddr, t) ==
    IF ~x.e.serviceRegistered THEN x
    ELSE IF getField(request, "MAN") # <<"\"ssdp:discover\"">> THEN x
    ELSE IF ~stForUs(x.e, getField(request, "ST")) THEN x
    ELSE sendNotifyHeader(sendHeader(x, k, responseHeader(x.e), recvAddr),
                          k, NTS_ALIVE, t)

handleRegisterService(x, k, header, recvAddr, t) ==
    LET usn       == getField(header, "USN")
        location  == getField(header, "LOCATION")
        serverURL == SoapyURL("tcp", parseURL(recvAddr).node,
                              parseURL(location).service)
        duration  == getCacheDuration(header)
        expires   == t + duration.val
    IN  IF usn = << >> THEN x
        ELSE IF getField(header, "NTS") = NTS_BYEBYE
             THEN [x EXCEPT !.e.handlers[k].usnToURL = mapErase(@, usn)]
        ELSE IF location = << >> THEN x
        ELSE IF duration.threw THEN [x EXCEPT !.threw = TRUE]
        ELSE [x EXCEPT !.e.handlers[k].usnToURL =
                          mapPut(@, usn, <<toString(serverURL), expires>>)]

handleSearchResponse(x, k, header, recvAddr, t) ==
    IF getField(header, "ST") # <<SOAPY_REMOTE_TARGET>> THEN x
    ELSE handleRegisterService(x, k, header, recvAddr, t)

\* a notify handler that accepts every notification type
handleNotifyRequest_anyTarget(x, k, header, recvAddr, t) ==
    handleRegisterService(x, k, header, recvAddr, t)

\* SoapySSDPEndpoint::handleNotifyRequest
handleNotifyRequest(x, k, header, recvAddr, t) ==
    IF getField(header, "NT") # <<SOAPY_REMOTE_TARGET>> THEN x
    ELSE handleRegisterService(x, k, header, recvAddr, t)

\* the three dispatch lines of handlerLoop
dispatch(x, k, header, recvAddr, t) ==
    LET x1 == IF getLine0(header) = "M-SEARCH * HTTP/1.1"
              THEN handleSearchRequest(x, k, header, recvAddr, t) ELSE x
        x2 == IF getLine0(header) = "HTTP/1.1 200 OK" /\ ~x1.threw
              THEN handleSearchResponse(x1, k, header, recvAddr, t) ELSE x1
        x3 == IF getLine0(header) = "NOTIFY * HTTP/1.1" /\ ~x2.threw
              THEN handleNotifyRequest(x2, k, header, recvAddr, t) ELSE x2
    IN  x3

(* ------------------------------------------------------------------ *)
(* Datagrams the network may deliver                                   *)
(* ------------------------------------------------------------------ *)

\* identities of the peers on the network segment
PeerUSNs == {usnOf(<<"P1">>), usnOf(<<"P2">>)}

\* the keys of the model in the order std::map keeps them
KeyOrder ==
    <<usnOf(<<"P1">>), usnOf(<<"P2">>), usnOf(<<"U1">>), usnOf(<<"U2">>)>>

\* values of the cache-control field: absent, numeric, and nothing after "="
CacheControls ==
    {<< >>,
     <<"m", "a", "x", "-", "a", "g", "e", "=", "0">>,
     <<"m", "a", "x", "-", "a", "g", "e", "=", "1">>,
     <<"m", "a", "x", "-", "a", "g", "e", "=">>}

PeerLocation == toString(SoapyURL("tcp", "peerhost", "9999"))

withFields(header, keys, values) ==
    [header EXCEPT !.fields =
        [f \in {keys[n] : n \in 1..Len(keys)} |->
            values[CHOOSE n \in 1..Len(keys) : keys[n] = f]]]

SearchRequests ==
    {withFields(SoapyHTTPHeader("M-SEARCH * HTTP/1.1"), <<"MAN", "ST">>,
                <<man, st>>) :
        man \in {<<"\"ssdp:discover\"">>},
        st \in {<<"ssdp:all">>, <<SOAPY_REMOTE_TARGET>>, uuidTarget(<<"U1">>),
                usnOf(<<"U1">>), <<"upnp:rootdevice">>}}
    \cup
    {withFields(SoapyHTTPHeader("M-SEARCH * HTTP/1.1"), <<"MAN", "ST">>,
                <<man, <<SOAPY_REMOTE_TARGET>> >>) :
        man \in {<< >>, <<"ssdp:discover">>}}

\* search responses (target field ST) and notify requests (target field NT)
Announcements(line0, targetField) ==
    LET h == SoapyHTTPHeader(line0)
        F == <<targetField, "NTS", "USN", "LOCATION", "CACHE-CONTROL">>
        T == <<SOAPY_REMOTE_TARGET>>
    IN  {withFields(h, F, <<T, nts, usn, PeerLocation, cc>>) :
            nts \in {NTS_ALIVE}, usn \in PeerUSNs, cc \in CacheControls}
        \cup
        {withFields(h, F, <<T, NTS_BYEBYE, usn, << >>, << >> >>) :
            usn \in PeerUSNs \cup {<< >>}}
        \cup
        {withFields(h, F, <<<<"upnp:rootdevice">>, NTS_ALIVE, usnOf(<<"P1">>),
                            PeerLocation, << >> >>),
         withFields(h, F, <<T, NTS_ALIVE, << >>, PeerLocation, << >> >>),
         withFields(h, F, <<T, NTS_ALIVE, usnOf(<<"P1">>), << >>, << >> >>)}

InHeaders ==
    SearchRequests
    \cup Announcements("HTTP/1.1 200 OK", "ST")
    \cup Announcements("NOTIFY * HTTP/1.1", "NT")
    \cup {SoapyHTTPHeader("GET / HTTP/1.1")}

\* the source address of a datagram that arrives on a socket of the family
SourceAddr(ipVer) ==
    IF ipVer = 4 THEN toString(SoapyURL("udp", "192.168.1.5", "1900"))
    ELSE toString(SoapyURL("udp", "[fe80::5]", "1900"))

(* ------------------------------------------------------------------ *)
(* handlerLoop, the thread of handler k of object i                    *)
(* ------------------------------------------------------------------ *)

HandlerAt(i, k, pc) ==
    /\ ~aborted
    /\ ep[i].life \in {"live", "dtor"}
    /\ k \in 1..Len(ep[i].handlers)
    /\ ep[i].handlers[k].pc = pc

\* while (not done), then sock.selectRecv with its timeout
HandlerLoop(i, k) ==
    /\ HandlerAt(i, k, "loop")
    /\ \E ready \in BOOLEAN :
         LET pc == IF ep[i].done THEN "exit"
                   ELSE IF ready THEN "recv" ELSE "sweep"
         IN  /\ ep' = [ep EXCEPT ![i].handlers[k].pc = pc]
             /\ out' = Event("loop", i, k)
    /\ UNCHANGED <<now, ticks, recvs, calls, mutex, aborted, singleton>>

\* a receive error that returns with the lock still held
HandlerRecvError_keepsLock(i, k) ==
    /\ HandlerAt(i, k, "recv")
    /\ mutex[i] = "free"
    /\ ep' = [ep EXCEPT ![i].handlers[k].pc = "ended",
                        ![i].handlers[k].endedBy = "recvfrom"]
    /\ mutex' = [mutex EXCEPT ![i] = "held"]
    /\ out' = [Event("recvError", i, k) EXCEPT !.locked = TRUE]
    /\ UNCHANGED <<now, ticks, recvs, calls, aborted, singleton>>

\* the locked block after selectRecv: recvfrom fails
HandlerRecvError(i, k) ==
    /\ HandlerAt(i, k, "recv")
    /\ mutex[i] = "free"
    /\ ep' = [ep EXCEPT ![i].handlers[k].pc = "ended",
                        ![i].handlers[k].endedBy = "recvfrom"]
    /\ mutex' = [mutex EXCEPT ![i] = "free"]
    /\ out' = [Event("recvError", i, k) EXCEPT !.locked = TRUE]
    /\ UNCHANGED <<now, ticks, recvs, calls, aborted, singleton>>

\* the locked block after selectRecv: recvfrom delivers a datagram, one of
\* headers, which is parsed and dispatched
HandlerRecv(i, k, headers, maxRecv) ==
    /\ HandlerAt(i, k, "recv")
    /\ mutex[i] = "free"
    /\ recvs < maxRecv
    /\ recvs' = recvs + 1
    /\ \E header \in headers :
         LET recvAddr == SourceAddr(ep[i].handlers[k].ipVer)
             x == dispatch(Call(ep[i]), k, header, recvAddr, now)
         IN  /\ ep' = [ep EXCEPT ![i] =
                          [x.e EXCEPT !.handlers[k].pc =
                              IF x.threw THEN "recv" ELSE "sweep"]]
             /\ aborted' = x.threw
             /\ out' = [Event("recv", i, k) EXCEPT
                           !.arg = <<header, recvAddr>>, !.sent = x.sent,
                           !.locked = TRUE]
    /\ mutex' = [mutex EXCEPT ![i] = "free"]
    /\ UNCHANGED <<now, ticks, calls, singleton>>

\* lastTime > timeNow + TRIGGER_TIMEOUT_SECONDS
triggerExpired(lastTime, timeNow) ==
    lastTime > timeNow + TRIGGER_TIMEOUT_SECONDS

\* remove old cache entries
sweepCache(usnToURL, timeNow) ==
    [u \in {v \in DOMAIN usnToURL : usnToURL[v][2] > timeNow} |-> usnToURL[u]]

\* the second locked block of an iteration
sweepAndTrigger(x, k, timeNow) ==
    LET x1 == [x EXCEPT !.e.handlers[k].usnToURL = sweepCache(@, timeNow)]
        x2 == IF x1.e.periodicSearchEnabled
                 /\ triggerExpired(x1.e.handlers[k].lastTimeSearch, timeNow)
              THEN sendSearchHeader(x1, k, timeNow) ELSE x1
        x3 == IF x2.e.periodicNotifyEnabled
                 /\ triggerExpired(x2.e.handlers[k].lastTimeNotify, timeNow)
              THEN sendNotifyHeader(x2, k, NTS_ALIVE, timeNow) ELSE x2
    IN  x3

HandlerSweep(i, k) ==
    /\ HandlerAt(i, k, "sweep")
    /\ mutex[i] = "free"
    /\ LET x == sweepAndTrigger(Call(ep[i]), k, now)
       IN  /\ ep' = [ep EXCEPT ![i] = [x.e EXCEPT !.handlers[k].pc = "loop"]]
           /\ out' = [Event("sweep", i, k) EXCEPT !.sent = x.sent, !.locked = TRUE]
    /\ mutex' = [mutex EXCEPT ![i] = "free"]
    /\ UNCHANGED <<now, ticks, recvs, calls, aborted, singleton>>

\* a thread that ends without a word
disconnectNotification_silent(x, k, t) == x

\* disconnect notification when done
disconnectNotification(x, k, t) ==
    IF x.e.done THEN sendNotifyHeader(x, k, NTS_BYEBYE, t) ELSE x

\* after the loop: the departure announcement, then the thread ends
HandlerExit(i, k) ==
    /\ HandlerAt(i, k, "exit")
    /\ mutex[i] = "free"
    /\ LET x == disconnectNotification(Call(ep[i]), k, now)
       IN  /\ ep' = [ep EXCEPT ![i] =
                        [x.e EXCEPT !.handlers[k].pc = "ended",
                                    !.handlers[k].endedBy = "done"]]
           /\ out' = [Event("exit", i, k) EXCEPT !.sent = x.sent, !.locked = ep[i].done]
    /\ mutex' = [mutex EXCEPT ![i] = "free"]
    /\ UNCHANGED <<now, ticks, recvs, calls, aborted, singleton>>

(* ------------------------------------------------------------------ *)
(* The public operations, called by a client through its shared_ptr    *)
(* ------------------------------------------------------------------ *)

\* client c may enter a member function: it holds the object, and the
\* lock_guard at the top of the function gets the mutex
CanCall(c) ==
    /\ ~aborted /\ ~InDestructor(c)
    /\ held[c] # 0
    /\ mutex[held[c]] = "free"

\* identity and service port the platform registers
RegisterArgs == {<< <<"U1">>, "9999" >>, << <<"U2">>, "8888" >>}

\* a registration that also forgets what the handlers have learned
registerService_reset(e, uuid, service) ==
    [e EXCEPT !.serviceRegistered = TRUE, !.uuid = uuid, !.service = service,
              !.handlers = [k \in DOMAIN @ |->
                               [@[k] EXCEPT !.usnToURL = EmptyMap,
                                            !.lastTimeNotify = 0]]]

\* SoapySSDPEndpoint::registerService
registerService(e, uuid, service) ==
    [e EXCEPT !.serviceRegistered = TRUE, !.uuid = uuid, !.service = service]

RegisterService(c, maxCalls) ==
    /\ CanCall(c)
    /\ calls < maxCalls
    /\ \E a \in RegisterArgs :
         /\ ep' = [ep EXCEPT ![held[c]] = registerService(@, a[1], a[2])]
         /\ out' = [Event("registerService", held[c], 0) EXCEPT
                       !.arg = a, !.locked = TRUE]
    /\ mutex' = [mutex EXCEPT ![held[c]] = "free"]
    /\ calls' = calls + 1
    /\ UNCHANGED <<now, ticks, recvs, aborted, singleton>>

\* for (auto &data : handlers) this->sendSearchHeader(data), from handler k on
RECURSIVE searchAll(_, _, _)
searchAll(x, k, t) ==
    IF k > Len(x.e.handlers) THEN x
    ELSE searchAll(sendSearchHeader(x, k, t), k + 1, t)

enablePeriodicSearch(x, enable, t) ==
    searchAll([x EXCEPT !.e.periodicSearchEnabled = enable], 1, t)

EnablePeriodicSearch(c, maxCalls) ==
    /\ CanCall(c)
    /\ calls < maxCalls
    /\ \E enable \in BOOLEAN :
         LET x == enablePeriodicSearch(Call(ep[held[c]]), enable, now)
         IN  /\ ep' = [ep EXCEPT ![held[c]] = x.e]
             /\ out' = [Event("enablePeriodicSearch", held[c], 0) EXCEPT
                           !.arg = <<enable>>, !.sent = x.sent, !.locked = TRUE]
    /\ mutex' = [mutex EXCEPT ![held[c]] = "free"]
    /\ calls' = calls + 1
    /\ UNCHANGED <<now, ticks, recvs, aborted, singleton>>

\* for (auto &data : handlers) this->sendNotifyHeader(data, NTS_ALIVE)
RECURSIVE notifyAll(_, _, _)
notifyAll(x, k, t) ==
    IF k > Len(x.e.handlers) THEN x
    ELSE notifyAll(sendNotifyHeader(x, k, NTS_ALIVE, t), k + 1, t)

enablePeriodicNotify(x, enable, t) ==
    notifyAll([x EXCEPT !.e.periodicNotifyEnabled = enable], 1, t)

EnablePeriodicNotify(c, maxCalls) ==
    /\ CanCall(c)
    /\ calls < maxCalls
    /\ \E enable \in BOOLEAN :
         LET x == enablePeriodicNotify(Call(ep[held[c]]), enable, now)
         IN  /\ ep' = [ep EXCEPT ![held[c]] = x.e]
             /\ out' = [Event("enablePeriodicNotify", held[c], 0) EXCEPT
                           !.arg = <<enable>>, !.sent = x.sent, !.locked = TRUE]
    /\ mutex' = [mutex EXCEPT ![held[c]] = "free"]
    /\ calls' = calls + 1
    /\ UNCHANGED <<now, ticks, recvs, aborted, singleton>>

\* mergeHandler without the test that keeps an entry already present
mergeHandler_overwrite(usnPrefToURL, data, ipVer, only) ==
    LET ipVerMatch == data.ipVer = ipVer
    IN  IF only /\ ~ipVerMatch THEN usnPrefToURL
        ELSE [u \in DOMAIN usnPrefToURL \cup DOMAIN data.usnToURL |->
                 IF u \in DOMAIN data.usnToURL THEN data.usnToURL[u]
                 ELSE usnPrefToURL[u]]

\* one handler's entries merged into usnPrefToURL
mergeHandler(usnPrefToURL, data, ipVer, only) ==
    LET ipVerMatch == data.ipVer = ipVer
        taken == {u \in DOMAIN data.usnToURL :
                     ~(u \in DOMAIN usnPrefToURL /\ ~ipVerMatch)}
    IN  IF only /\ ~ipVerMatch THEN usnPrefToURL
        ELSE [u \in DOMAIN usnPrefToURL \cup taken |->
                 IF u \in taken THEN data.usnToURL[u] ELSE usnPrefToURL[u]]

\* the single mapping of discovered URLs, built from handler k on
RECURSIVE usnPrefToURL(_, _, _, _, _)
usnPrefToURL(handlers, k, pref, ipVer, only) ==
    IF k > Len(handlers) THEN pref
    ELSE usnPrefToURL(handlers, k + 1,
                      mergeHandler(pref, handlers[k], ipVer, only), ipVer, only)

\* the URLs of the mapping, in the order of its keys
RECURSIVE serverURLs(_, _)
serverURLs(pref, n) ==
    IF n > Len(KeyOrder) THEN << >>
    ELSE (IF KeyOrder[n] \in DOMAIN pref THEN <<pref[KeyOrder[n]][1]>> ELSE << >>)
         \o serverURLs(pref, n + 1)

getServerURLs(e, ipVer, only) ==
    serverURLs(usnPrefToURL(e.handlers, 1, EmptyMap, ipVer, only), 1)

\* called with a family argument out of ipVers
GetServerURLs(c, ipVers) ==
    /\ CanCall(c)
    /\ \E ipVer \in ipVers, only \in BOOLEAN :
         out' = [Event("getServerURLs", held[c], 0) EXCEPT
                    !.arg = <<ipVer, only>>,
                    !.pref = usnPrefToURL(ep[held[c]].handlers, 1, EmptyMap,
                                          ipVer, only),
                    !.ret = getServerURLs(ep[held[c]], ipVer, only),
                    !.locked = TRUE]
    /\ mutex' = [mutex EXCEPT ![held[c]] = "free"]
    /\ UNCHANGED <<now, ticks, recvs, calls, ep, aborted, singleton>>

(* ------------------------------------------------------------------ *)
(* The clock                                                           *)
(* ------------------------------------------------------------------ *)

\* seconds by which the clock is seen to advance between two steps
TickSteps == {1, 60}

Tick(maxTicks) ==
    /\ ~aborted
    /\ ticks < maxTicks
    /\ \E d \in TickSteps : now' = now + d
    /\ ticks' = ticks + 1
    /\ out' = Event("tick", 0, 0)
    /\ UNCHANGED <<recvs, calls, ep, mutex, aborted, singleton>>


(* ------------------------------------------------------------------ *)
(* Specifications                                                      *)
(* ------------------------------------------------------------------ *)

\* results of SoapyRPCSocket::multicastJoin and SoapyRPCSocket::bind
SockRets == {0, -1}

\* the family arguments callers pass
IpVers == {4, 6, 0}

Handlers(i) == DOMAIN ep[i].handlers

\* datagrams of the life-cycle runs: a search request and an announcement
\* whose cache-control has nothing after "="
LifeHeaders ==
    {h \in InHeaders :
        \/ getLine0(h) = "M-SEARCH * HTTP/1.1"
             /\ getField(h, "ST") = <<SOAPY_REMOTE_TARGET>>
             /\ getField(h, "MAN") = <<"\"ssdp:discover\"">>
        \/ getLine0(h) = "NOTIFY * HTTP/1.1"
             /\ getField(h, "USN") = usnOf(<<"P1">>)
             /\ getField(h, "CACHE-CONTROL") = <<"m", "a", "x", "-", "a", "g", "e", "=">>}

\* Life cycle: clients acquire and release the shared object while handler
\* threads run
NextLife ==
    \/ \E c \in Clients : GetInstance(c, MaxInst, SockRets)
    \/ \E c \in Clients : Release(c)
    \/ \E i \in Instances : DestructorJoin(i)
    \/ \E c \in Clients : RegisterService(c, 1)
    \/ \E i \in Instances : \E k \in Handlers(i) : HandlerLoop(i, k)
    \/ \E i \in Instances : \E k \in Handlers(i) : HandlerRecvError(i, k)
    \/ \E i \in Instances : \E k \in Handlers(i) :
            HandlerRecv(i, k, LifeHeaders, 1)
    \/ \E i \in Instances : \E k \in Handlers(i) : HandlerSweep(i, k)
    \/ \E i \in Instances : \E k \in Handlers(i) : HandlerExit(i, k)

SpecLife == Init /\ [][NextLife]_vars

\* announcements and search responses
AnnounceHeaders == {h \in InHeaders : getLine0(h) # "M-SEARCH * HTTP/1.1"}

\* Cache: one object, announcements arriving, the clock, and peer queries
NextCache ==
    \/ GetInstance("c1", 1, {0})
    \/ GetServerURLs("c1", IpVers)
    \/ \E i \in Instances : \E k \in Handlers(i) : HandlerLoop(i, k)
    \/ \E i \in Instances : \E k \in Handlers(i) : HandlerRecvError(i, k)
    \/ \E i \in Instances : \E k \in Handlers(i) :
            HandlerRecv(i, k, AnnounceHeaders, MaxRecv)
    \/ \E i \in Instances : \E k \in Handlers(i) : HandlerSweep(i, k)
    \/ Tick(MaxTicks)

SpecCache == Init /\ [][NextCache]_vars

\* Announce: one object with a registered service, search requests
\* arriving, the periodic triggers, the clock, and shutdown
NextAnnounce ==
    \/ GetInstance("c1", 1, {0})
    \/ Release("c1")
    \/ \E i \in Instances : DestructorJoin(i)
    \/ RegisterService("c1", MaxCalls)
    \/ EnablePeriodicSearch("c1", MaxCalls)
    \/ EnablePeriodicNotify("c1", MaxCalls)
    \/ \E i \in Instances : \E k \in Handlers(i) : HandlerLoop(i, k)
    \/ \E i \in Instances : \E k \in Handlers(i) :
            HandlerRecv(i, k, SearchRequests, MaxRecv)
    \/ \E i \in Instances : \E k \in Handlers(i) : HandlerSweep(i, k)
    \/ \E i \in Instances : \E k \in Handlers(i) : HandlerExit(i, k)
    \/ Tick(MaxTicks)

SpecAnnounce == Init /\ [][NextAnnounce]_vars

\* Query: getServerURLs applied to the caches a running object can hold.
\* Each handler's cache maps any of the peers to the locator built from the
\* source address of its family, stored at time 0 with max-age=1 or with
\* the default duration.
QueryEntries(ipVer) ==
    {<<toString(SoapyURL("tcp", parseURL(SourceAddr(ipVer)).node,
                         parseURL(PeerLocation).service)), e>> :
        e \in {1, CACHE_DURATION_SECONDS}}

QueryCaches(ipVer) ==
    UNION {[U -> QueryEntries(ipVer)] : U \in SUBSET PeerUSNs}

QueryData(ipVer) ==
    LET c == spawnHandler([handlers |-> << >>, blacklist |-> {}], "",
                          IF ipVer = 4 THEN SSDP_MULTICAST_ADDR_IPV4
                          ELSE SSDP_MULTICAST_ADDR_IPV6, ipVer, 0, 0)
    IN  {[c.handlers[1] EXCEPT !.usnToURL = m] : m \in QueryCaches(ipVer)}

QueryHandlers ==
    {<< >>}
    \cup {<<h>> : h \in QueryData(4) \cup QueryData(6)}
    \cup {<<h4, h6>> : h4 \in QueryData(4), h6 \in QueryData(6)}

InitQuery ==
    /\ now = 0
    /\ ticks = 0
    /\ recvs = 0
    /\ calls = 0
    /\ epWeak = 1
    /\ useCount = [i \in Instances |-> IF i = 1 THEN 1 ELSE 0]
    /\ built = 1
    /\ blacklistedGroups = {}
    /\ held = [c \in Clients |-> IF c = "c1" THEN 1 ELSE 0]
    /\ \E hs \in QueryHandlers :
         ep = [i \in Instances |->
                  IF i = 1 THEN [NewEndpoint EXCEPT !.handlers = hs]
                  ELSE NoEndpoint]
    /\ mutex = [i \in Instances |-> "free"]
    /\ aborted = FALSE
    /\ out = Event("init", 0, 0)

NextQuery == GetServerURLs("c1", IpVers)

SpecQuery == InitQuery /\ [][NextQuery]_vars

(* ------------------------------------------------------------------ *)
(* C1                                                                  *)
(* ------------------------------------------------------------------ *)

\* C1: every locator that getServerURLs returns comes from a cache entry
\* whose expiry is strictly after the time of the query.
C1_ReturnedEntriesUnexpired ==
    out.op = "getServerURLs" =>
        \A u \in DOMAIN out.pref : out.pref[u][2] > now

(* ------------------------------------------------------------------ *)
(* C2                                                                  *)
(* ------------------------------------------------------------------ *)

\* the handlers of e whose family is (match) or is not (~match) ipVer
FamilyHandlers(e, ipVer, match) ==
    {k \in DOMAIN e.handlers : (e.handlers[k].ipVer = ipVer) = match}

\* the USNs some handler out of K holds
HeldUSNs(e, K) == UNION {DOMAIN e.handlers[k].usnToURL : k \in K}

\* the locators the handlers out of K hold for u
LocatorsOf(e, K, u) ==
    {e.handlers[k].usnToURL[u][1] :
        k \in {j \in K : u \in DOMAIN e.handlers[j].usnToURL}}

\* the locator the merged view may show for u
MergedLocators(e, ipVer, only, u) ==
    LET own   == LocatorsOf(e, FamilyHandlers(e, ipVer, TRUE), u)
        other == LocatorsOf(e, FamilyHandlers(e, ipVer, FALSE), u)
    IN  IF own # {} THEN own ELSE IF only THEN {} ELSE other

MergedUSNs(e, ipVer, only) ==
    IF only THEN HeldUSNs(e, FamilyHandlers(e, ipVer, TRUE))
    ELSE HeldUSNs(e, DOMAIN e.handlers)

\* C2: getPeerLocators(family, exclusiveOnly) returns exactly one locator
\* per USN of the merged view: with exclusiveOnly only the USNs of the
\* family-matching handler; otherwise every USN of any handler, with the
\* matching handler's locator whenever it has the USN and another handler's
\* only for the USNs it lacks.
C2_MergedView ==
    out.op = "getServerURLs" =>
        LET e     == ep[out.i]
            ipVer == out.arg[1]
            only  == out.arg[2]
            usns  == MergedUSNs(e, ipVer, only)
        IN  /\ DOMAIN out.pref = usns
            /\ \A u \in usns :
                   out.pref[u][1] \in MergedLocators(e, ipVer, only, u)
            /\ Len(out.ret) = Cardinality(usns)
            /\ \A l \in {out.pref[u][1] : u \in usns} :
                   Cardinality({n \in DOMAIN out.ret : out.ret[n] = l})
                     = Cardinality({u \in usns : out.pref[u][1] = l})

\* a query for IPv4 with both families holding P1 and only IPv6 holding P2
C2_Witness ==
    /\ out.op = "getServerURLs"
    /\ out.arg = <<4, FALSE>>
    /\ Len(ep[out.i].handlers) = 2
    /\ DOMAIN ep[out.i].handlers[1].usnToURL = {usnOf(<<"P1">>)}
    /\ DOMAIN ep[out.i].handlers[2].usnToURL = PeerUSNs
    /\ Len(out.ret) = 2
    /\ out.ret[1] # out.ret[2]

(* ------------------------------------------------------------------ *)
(* C3, C4                                                              *)
(* ------------------------------------------------------------------ *)

Holders(i) == {c \in Clients : held[c] = i}

\* C3: while at least one caller holds the handle, every acquire returns
\* that same instance and constructs none; the instance is destroyed only
\* after the last holder has released it.
C3_SharedWhileHeld ==
    /\ \A c, d \in Clients : held[c] # 0 /\ held[d] # 0 => held[c] = held[d]
    /\ \A c \in Clients : held[c] # 0 => ep[held[c]].life = "live"
    /\ \A i \in Instances : useCount[i] = Cardinality(Holders(i))
    /\ out.op = "getInstance" /\ out.arg[1] = "new" =>
           \A i \in Instances : i # out.i => Holders(i) = {}
    /\ out.op = "getInstance" /\ out.arg[1] = "new" =>
           Cardinality(Holders(out.i)) = 1

\* the second client has acquired the object the first one holds
C3_Witness ==
    /\ out.op = "getInstance"
    /\ out.arg = <<"shared">>
    /\ Cardinality(Holders(out.i)) = 2
    /\ built = 1

\* C4: at every moment at most one Endpoint instance is live: none is
\* constructed while a previous one is still in teardown.
C4_AtMostOneLive ==
    Cardinality({i \in Instances : ep[i].life \in {"live", "dtor"}}) <= 1

(* ------------------------------------------------------------------ *)
(* C5, C6                                                              *)
(* ------------------------------------------------------------------ *)

\* sent is one datagram per handler of e, in order, each to its multicast
\* group, with the start line line0
OnePerHandler(e, sent, line0) ==
    /\ Len(sent) = Len(e.handlers)
    /\ \A k \in DOMAIN sent :
           /\ sent[k].k = k
           /\ sent[k].to = e.handlers[k].groupURL
           /\ getLine0(sent[k].hdr) = line0

\* C5: enablePeriodicSearch(on) sets the flag to on and sends one search
\* per handler exactly when on is true; enablePeriodicNotify(on) likewise
\* with an alive announcement when a service is registered; a call with
\* on = false sends no message.
C5_ImmediateOnlyWhenOn ==
    /\ out.op = "enablePeriodicSearch" =>
           /\ ep[out.i].periodicSearchEnabled = out.arg[1]
           /\ IF out.arg[1]
              THEN OnePerHandler(ep[out.i], out.sent, "M-SEARCH * HTTP/1.1")
              ELSE out.sent = << >>
    /\ out.op = "enablePeriodicNotify" =>
           /\ ep[out.i].periodicNotifyEnabled = out.arg[1]
           /\ IF out.arg[1] /\ ep[out.i].serviceRegistered
              THEN OnePerHandler(ep[out.i], out.sent, "NOTIFY * HTTP/1.1")
              ELSE out.sent = << >>

\* C6: an iteration of a running handler sends a search when periodic search
\* is enabled and the interval has elapsed since lastTimeSearch, and advances
\* lastTimeSearch; likewise the announcement of a registered service against
\* lastTimeNotify.  So after the iteration no enabled trigger is overdue.
C6_NoTriggerOverdueAfterIteration ==
    out.op = "sweep" =>
        LET e    == ep[out.i]
            data == e.handlers[out.k]
        IN  /\ e.periodicSearchEnabled =>
                   now - data.lastTimeSearch <= TRIGGER_TIMEOUT_SECONDS
            /\ e.periodicNotifyEnabled /\ e.serviceRegistered =>
                   now - data.lastTimeNotify <= TRIGGER_TIMEOUT_SECONDS

(* ------------------------------------------------------------------ *)
(* C9                                                                  *)
(* ------------------------------------------------------------------ *)

\* a search request the node must answer: the discover token, and a search
\* target that is "all", the well-known target or the node's own identity
ForThisNode(e, header) ==
    /\ getLine0(header) = "M-SEARCH * HTTP/1.1"
    /\ getField(header, "MAN") = <<"\"ssdp:discover\"">>
    /\ getField(header, "ST") \in
           {<<"ssdp:all">>, <<SOAPY_REMOTE_TARGET>>, <<"uuid:">> \o e.uuid}

\* C9: a registered node that receives such a search request sends a
\* unicast response to the source address of the datagram, carrying the
\* well-known target and the node's USN, and a multicast alive announcement
\* with the same USN to its group.
C9_SearchAnsweredTwice ==
    out.op = "recv" /\ ep[out.i].serviceRegistered
        /\ ForThisNode(ep[out.i], out.arg[1]) =>
        LET e    == ep[out.i]
            data == e.handlers[out.k]
            usn  == <<"uuid:">> \o e.uuid \o <<"::", SOAPY_REMOTE_TARGET>>
        IN  /\ Len(out.sent) = 2
            /\ out.sent[1].to = out.arg[2]
            /\ getLine0(out.sent[1].hdr) = "HTTP/1.1 200 OK"
            /\ getField(out.sent[1].hdr, "ST") = <<SOAPY_REMOTE_TARGET>>
            /\ getField(out.sent[1].hdr, "USN") = usn
            /\ out.sent[2].to = data.groupURL
            /\ getLine0(out.sent[2].hdr) = "NOTIFY * HTTP/1.1"
            /\ getField(out.sent[2].hdr, "NTS") = NTS_ALIVE
            /\ getField(out.sent[2].hdr, "USN") = usn

\* the node registered as U1 has received a search for "uuid:U1" on IPv6
C9_Witness ==
    /\ out.op = "recv"
    /\ ep[out.i].serviceRegistered
    /\ ep[out.i].uuid = <<"U1">>
    /\ ep[out.i].handlers[out.k].ipVer = 6
    /\ getField(out.arg[1], "ST") = <<"uuid:", "U1">>
    /\ getField(out.arg[1], "MAN") = <<"\"ssdp:discover\"">>
    /\ Len(out.sent) = 2

(* ------------------------------------------------------------------ *)
(* C7                                                                  *)
(* ------------------------------------------------------------------ *)

HandlerOps == {"loop", "recvError", "recv", "sweep", "exit"}

\* datagram m is a byebye announcement of e on the socket of handler k
IsByebyeOf(e, k, m) ==
    /\ m.k = k
    /\ m.to = e.handlers[k].groupURL
    /\ getLine0(m.hdr) = "NOTIFY * HTTP/1.1"
    /\ getField(m.hdr, "NTS") = NTS_BYEBYE
    /\ getField(m.hdr, "USN") = <<"uuid:">> \o e.uuid \o <<"::", SOAPY_REMOTE_TARGET>>

\* C7 as stated: with a service registered, a handler thread that ends after
\* shutdown was signalled has sent exactly one byebye.
C7_EveryHandlerEndingAfterSignal ==
    out.op \in {"recvError", "exit"} /\ ep[out.i].life = "dtor"
        /\ ep[out.i].serviceRegistered =>
        ep[out.i].handlers[out.k].byes = 1

C7_State ==
    \A i \in Instances : \A k \in Handlers(i) :
        LET e == ep[i]
            d == e.handlers[k]
        IN  /\ d.pc = "ended" /\ d.endedBy = "done" =>
                   e.done /\ d.byes = IF e.serviceRegistered THEN 1 ELSE 0
            /\ d.pc = "ended" /\ d.endedBy = "recvfrom" => d.byes = 0
            /\ d.pc \notin {"ended", "deleted"} => d.byes = 0
            /\ out.op = "exit" /\ out.i = i /\ out.k = k /\ e.serviceRegistered =>
                   /\ d.pc = "ended"
                   /\ Len(out.sent) = 1
                   /\ IsByebyeOf(e, k, out.sent[1])
            /\ out.op \in HandlerOps \ {"exit"} /\ out.i = i /\ out.k = k =>
                   \A n \in DOMAIN out.sent :
                       getField(out.sent[n].hdr, "NTS") # NTS_BYEBYE

\* a thread that has ended takes no further step
C7_Step ==
    \A i \in Instances : \A k \in Handlers(i) :
        ep[i].handlers[k].pc = "ended" =>
            ~(out'.op \in HandlerOps /\ out'.i = i /\ out'.k = k)

\* C7, amended: with a service registered, a handler thread that leaves its
\* loop on the shutdown flag sends exactly one byebye to its group, as the
\* last thing before the thread ends; a thread that ends on a receive error,
\* before or after the signal, sends none.
C7_ByebyeOnLoopExit == []C7_State /\ [][C7_Step]_vars

\* a handler of a registered node has just sent its byebye and ended
C7_Witness ==
    /\ out.op = "exit"
    /\ ep[out.i].serviceRegistered
    /\ ep[out.i].handlers[out.k].pc = "ended"
    /\ ep[out.i].handlers[out.k].byes = 1
    /\ Len(out.sent) = 1

(* ------------------------------------------------------------------ *)
(* C8                                                                  *)
(* ------------------------------------------------------------------ *)

\* the constructor calls spawnHandler twice
MaxHandlers == 2

\* the next step of the thread of handler k of object i
HandlerStep(i, k, headers, maxRecv) ==
    /\ k \in Handlers(i)
    /\ \/ HandlerLoop(i, k)
       \/ HandlerRecvError(i, k)
       \/ HandlerRecv(i, k, headers, maxRecv)
       \/ HandlerSweep(i, k)
       \/ HandlerExit(i, k)

\* Shutdown: one client acquires, registers and releases one object
NextShutdown ==
    \/ GetInstance("c1", 1, SockRets)
    \/ Release("c1")
    \/ \E i \in Instances : DestructorJoin(i)
    \/ RegisterService("c1", 1)
    \/ \E i \in Instances : \E k \in Handlers(i) : HandlerLoop(i, k)
    \/ \E i \in Instances : \E k \in Handlers(i) : HandlerRecvError(i, k)
    \/ \E i \in Instances : \E k \in Handlers(i) :
            HandlerRecv(i, k, LifeHeaders, 1)
    \/ \E i \in Instances : \E k \in Handlers(i) : HandlerSweep(i, k)
    \/ \E i \in Instances : \E k \in Handlers(i) : HandlerExit(i, k)

\* every thread that can take a step eventually takes one
SpecShutdown ==
    /\ Init /\ [][NextShutdown]_vars
    /\ \A i \in Instances : WF_vars(DestructorJoin(i))
    /\ \A i \in Instances : \A k \in 1..MaxHandlers :
           WF_vars(HandlerStep(i, k, LifeHeaders, 1))

\* C8: once the last holder has released the object, teardown completes.
C8_TeardownCompletes ==
    \A i \in Instances : (ep[i].life = "dtor") ~> (ep[i].life = "destroyed")

\* teardown completes unless the process is aborted
TeardownCompletesOrAborted ==
    \A i \in Instances :
        (ep[i].life = "dtor") ~> (ep[i].life = "destroyed" \/ aborted)

(* ------------------------------------------------------------------ *)
(* C10                                                                 *)
(* ------------------------------------------------------------------ *)

\* an accepted announcement or search response that says byebye for a USN
IsByebye(header) ==
    /\ \/ getLine0(header) = "NOTIFY * HTTP/1.1"
            /\ getField(header, "NT") = <<SOAPY_REMOTE_TARGET>>
       \/ getLine0(header) = "HTTP/1.1 200 OK"
            /\ getField(header, "ST") = <<SOAPY_REMOTE_TARGET>>
    /\ getField(header, "USN") # << >>
    /\ getField(header, "NTS") = NTS_BYEBYE

C10_Step ==
    out'.op = "recv" /\ IsByebye(out'.arg[1]) =>
        LET i     == out'.i
            k     == out'.k
            u     == getField(out'.arg[1], "USN")
            cache == ep[i].handlers[k].usnToURL
            after == ep'[i].handlers[k].usnToURL
        IN  /\ u \notin DOMAIN after
            /\ DOMAIN after = DOMAIN cache \ {u}
            /\ \A v \in DOMAIN after : after[v] = cache[v]
            /\ \A j \in Handlers(i) \ {k} :
                   ep'[i].handlers[j].usnToURL = ep[i].handlers[j].usnToURL

\* C10: after a handler processes a byebye for USN u its cache holds no
\* entry for u, whether or not one existed or had expired; the entries of
\* all other USNs are unchanged.
C10_ByebyeErases == [][C10_Step]_vars

\* a byebye for P1 has been processed by a handler that holds P2
C10_Witness ==
    /\ out.op = "recv"
    /\ IsByebye(out.arg[1])
    /\ getField(out.arg[1], "USN") = usnOf(<<"P1">>)
    /\ DOMAIN ep[out.i].handlers[out.k].usnToURL = {usnOf(<<"P2">>)}

(* ------------------------------------------------------------------ *)
(* C11                                                                 *)
(* ------------------------------------------------------------------ *)

\* the groups the constructor may try to join
Groups == {SSDP_MULTICAST_ADDR_IPV4, SSDP_MULTICAST_ADDR_IPV6}

\* object e has a handler (socket, thread, data) for the group
HasHandlerFor(e, groupAddr) ==
    \E k \in DOMAIN e.handlers :
        e.handlers[k].groupURL =
            toString(SoapyURL("udp", groupAddr, SSDP_UDP_PORT_NUMBER))

\* a step that constructs an object, with a = <<"new", isIPv6Supported,
\* j4, b4, j6, b6>> the results of its socket calls
C11_Construct(a) ==
    LET e   == ep'[built']
        try == [g \in Groups |->
                   IF g = SSDP_MULTICAST_ADDR_IPV4 THEN TRUE ELSE a[2]]
        jn  == [g \in Groups |->
                   IF g = SSDP_MULTICAST_ADDR_IPV4 THEN a[3] ELSE a[5]]
        bd  == [g \in Groups |->
                   IF g = SSDP_MULTICAST_ADDR_IPV4 THEN a[4] ELSE a[6]]
    IN  /\ \A g \in Groups :
              /\ g \in blacklistedGroups => ~HasHandlerFor(e, g)
              /\ HasHandlerFor(e, g) <=>
                     try[g] /\ g \notin blacklistedGroups
                            /\ jn[g] = 0 /\ bd[g] = 0
        /\ blacklistedGroups' = blacklistedGroups \cup
               {g \in Groups : try[g] /\ jn[g] # 0}

C11_Step ==
    /\ blacklistedGroups \subseteq blacklistedGroups'
    /\ built' = built => blacklistedGroups' = blacklistedGroups
    /\ built' # built =>
           /\ out'.op = "getInstance" /\ out'.arg[1] = "new"
           /\ C11_Construct(out'.arg)

\* C11: once a join for group G has failed, every later construction of a
\* handler for G in the process, also by a later Endpoint, makes no socket,
\* thread or handler; the other group is handled by its own results alone; a
\* bind failure adds nothing to the blacklist and nothing is ever removed.
C11_BlacklistIsPermanent == [][C11_Step]_vars

\* the second Endpoint is constructed with the IPv4 group blacklisted by the
\* first: its join and bind would succeed, yet it has only the IPv6 handler
C11_Witness ==
    /\ out.op = "getInstance" /\ out.arg[1] = "new"
    /\ built = 2
    /\ out.arg[3] = 0 /\ out.arg[4] = 0
    /\ blacklistedGroups = {SSDP_MULTICAST_ADDR_IPV4}
    /\ ~HasHandlerFor(ep[2], SSDP_MULTICAST_ADDR_IPV4)
    /\ HasHandlerFor(ep[2], SSDP_MULTICAST_ADDR_IPV6)

(* ------------------------------------------------------------------ *)
(* C12                                                                 *)
(* ------------------------------------------------------------------ *)

\* C12: a peer query made more than max-age seconds after an entry was
\* stored and not refreshed no longer returns its locator: every locator
\* returned comes from an entry whose lifetime has not yet run out.
C12_NoLocatorPastMaxAge ==
    out.op = "getServerURLs" =>
        \A n \in DOMAIN out.ret :
            \E u \in DOMAIN out.pref :
                /\ out.pref[u][1] = out.ret[n]
                /\ now <= out.pref[u][2]

(* ------------------------------------------------------------------ *)
(* C13                                                                 *)
(* ------------------------------------------------------------------ *)

MaxAgeToken == <<"m", "a", "x", "-", "a", "g", "e">>

\* values of the cache-control field: a name part, an optional "=", white
\* space, and a value part
DurationControls ==
    {name \o eq \o ws \o value :
        name  \in {<< >>, MaxAgeToken, <<"n", "o", "-", "c", "a", "c", "h", "e">>,
                   <<"=">> \o MaxAgeToken},
        eq    \in {<< >>, <<"=">>},
        ws    \in {<< >>, <<" ">>, <<" ", "\t">>},
        value \in {<< >>, <<"7">>, <<"3", "0">>, <<"x">>, <<"a", "b">>}}

\* alive announcements and search responses that are accepted and carry a
\* USN and a location
DurationHeaders ==
    {withFields(SoapyHTTPHeader(line[1]),
                <<line[2], "NTS", "USN", "LOCATION", "CACHE-CONTROL">>,
                <<<<SOAPY_REMOTE_TARGET>>, NTS_ALIVE, usnOf(<<"P1">>),
                  PeerLocation, cc>>) :
        line \in {<<"NOTIFY * HTTP/1.1", "NT">>, <<"HTTP/1.1 200 OK", "ST">>},
        cc \in DurationControls}

\* Duration: one object whose handlers receive one announcement each way
NextDuration ==
    \/ GetInstance("c1", 1, {0})
    \/ \E i \in Instances : \E k \in Handlers(i) : HandlerLoop(i, k)
    \/ \E i \in Instances : \E k \in Handlers(i) :
            HandlerRecv(i, k, DurationHeaders, 1)
    \/ \E i \in Instances : \E k \in Handlers(i) : HandlerSweep(i, k)

SpecDuration == Init /\ [][NextDuration]_vars

\* the text of s after its first "=" and the white space that follows
AfterEquals(s) ==
    LET p == CHOOSE n \in 1..Len(s) : s[n] = "=" /\ \A m \in 1..(n - 1) : s[m] # "="
        q == CHOOSE n \in (p + 1)..(Len(s) + 1) :
                 /\ \A m \in (p + 1)..(n - 1) : s[m] \in {" ", "\t"}
                 /\ n <= Len(s) => s[n] \notin {" ", "\t"}
    IN  SubSeq(s, q, Len(s))

\* sub occurs in s at position n
OccursAt(s, sub, n) ==
    /\ n + Len(sub) - 1 <= Len(s)
    /\ \A j \in 1..Len(sub) : s[n + j - 1] = sub[j]

\* max-age is absent or malformed: no "max-age" token, no "=", "=" before
\* "max-age", or nothing, only white space or non-numeric text after "="
Malformed(cc) ==
    \/ cc = << >>
    \/ ~\E n \in 1..Len(cc) : OccursAt(cc, MaxAgeToken, n)
    \/ ~\E n \in 1..Len(cc) : cc[n] = "="
    \/ \E n \in 1..Len(cc) :
           /\ cc[n] = "="
           /\ ~\E m \in 1..(n - 1) : OccursAt(cc, MaxAgeToken, m)
           /\ \A m \in 1..(n - 1) : cc[m] # "="
    \/ AfterEquals(cc) = << >>
    \/ AfterEquals(cc)[1] \notin {"0", "1", "2", "3", "4", "5", "6", "7", "8", "9"}

\* C13: for an accepted announcement or response whose max-age is absent or
\* malformed the entry is stored with the default 120 seconds, no failure
\* escapes the handler, and the handler keeps running.
C13_MalformedMaxAgeFallsBack ==
    out.op = "recv" /\ Malformed(getField(out.arg[1], "CACHE-CONTROL")) =>
        LET data == ep[out.i].handlers[out.k]
            usn  == getField(out.arg[1], "USN")
        IN  /\ ~aborted
            /\ data.pc = "sweep"
            /\ usn \in DOMAIN data.usnToURL
            /\ data.usnToURL[usn][2] = now + CACHE_DURATION_SECONDS

(* ------------------------------------------------------------------ *)
(* C14                                                                 *)
(* ------------------------------------------------------------------ *)

\* the thread of handler j of object i can take its next step
CanStep(i, j) ==
    LET pc == ep[i].handlers[j].pc
    IN  /\ pc = "loop" => ENABLED HandlerLoop(i, j)
        /\ pc = "recv" => ENABLED HandlerRecv(i, j, InHeaders, recvs + 1)
        /\ pc = "sweep" => ENABLED HandlerSweep(i, j)
        /\ pc = "exit" => ENABLED HandlerExit(i, j)

\* a public operation of client c can take the lock and run to completion;
\* enablePeriodicSearch and enablePeriodicNotify wait for the same lock as
\* registerService
CanComplete(c) ==
    /\ CanCall(c)
    /\ ENABLED RegisterService(c, calls + 1)
    /\ ENABLED GetServerURLs(c, IpVers)

C14_State ==
    \A i \in Instances : \A k \in Handlers(i) :
        LET d == ep[i].handlers[k]
        IN  d.pc = "ended" /\ d.endedBy = "recvfrom" /\ ~aborted =>
                /\ d.byes = 0
                /\ mutex[i] = "free"
                /\ \A j \in Handlers(i) \ {k} : CanStep(i, j)
                /\ \A c \in Holders(i) : CanComplete(c)

\* the step of a receive error changes the position of its own thread only
C14_Step ==
    out'.op = "recvError" =>
        /\ out'.sent = << >>
        /\ ep' = [ep EXCEPT ![out'.i].handlers[out'.k].pc = "ended",
                            ![out'.i].handlers[out'.k].endedBy = "recvfrom"]
        /\ aborted' = aborted
        /\ UNCHANGED singleton

\* C14: a receive error on one handler's socket ends only that handler's
\* thread, sends no byebye and leaves the lock free: the other handler can
\* take every step of its loop and every public operation can complete.
C14_RecvErrorIsLocal == []C14_State /\ [][C14_Step]_vars

\* after the receive error of one handler the other has answered a search
\* request, and a client still holds the object
C14_Witness ==
    /\ out.op = "recv"
    /\ Len(out.sent) = 2
    /\ \E k \in Handlers(out.i) \ {out.k} :
           /\ ep[out.i].handlers[k].pc = "ended"
           /\ ep[out.i].handlers[k].endedBy = "recvfrom"
    /\ Holders(out.i) # {}

(* ------------------------------------------------------------------ *)
(* C15                                                                 *)
(* ------------------------------------------------------------------ *)

\* what the handlers of the registration scenario receive: a peer's alive
\* announcement and a search request for the well-known target
RegisterHeaders ==
    {h \in InHeaders :
        \/ getLine0(h) = "M-SEARCH * HTTP/1.1"
             /\ getField(h, "ST") = <<SOAPY_REMOTE_TARGET>>
             /\ getField(h, "MAN") = <<"\"ssdp:discover\"">>
        \/ getLine0(h) = "NOTIFY * HTTP/1.1"
             /\ getField(h, "NT") = <<SOAPY_REMOTE_TARGET>>
             /\ getField(h, "NTS") = NTS_ALIVE
             /\ getField(h, "USN") = usnOf(<<"P1">>)
             /\ getField(h, "LOCATION") # << >>
             /\ getField(h, "CACHE-CONTROL") = << >>}

\* Register: one object, registrations and re-registrations while its
\* handlers learn peers and answer searches
NextRegister ==
    \/ GetInstance("c1", 1, {0})
    \/ RegisterService("c1", MaxCalls)
    \/ \E i \in Instances : \E k \in Handlers(i) : HandlerLoop(i, k)
    \/ \E i \in Instances : \E k \in Handlers(i) :
            HandlerRecv(i, k, RegisterHeaders, MaxRecv)
    \/ \E i \in Instances : \E k \in Handlers(i) : HandlerSweep(i, k)
    \/ Tick(1)

SpecRegister == Init /\ [][NextRegister]_vars

C15_Step ==
    out'.op = "registerService" =>
        LET i == out'.i
            a == out'.arg
        IN  /\ ep' = [ep EXCEPT ![i].serviceRegistered = TRUE,
                                ![i].uuid = a[1],
                                ![i].service = a[2]]
            /\ out'.sent = << >>
            /\ ep[i].serviceRegistered /\ ep[i].uuid = a[1]
                   /\ ep[i].service = a[2] =>
                   UNCHANGED <<ep, now, mutex, aborted, singleton>>

\* C15: registerService sets serviceRegistered and overwrites identity and
\* locator and touches nothing else; called again with the same arguments
\* it leaves the whole Endpoint state, every handler's cache and timers
\* included, as it was.
C15_RegisterIdempotent == [][C15_Step]_vars

\* a second registration of an object whose handlers hold a peer's entry and
\* have announced the first registration at a later time
C15_Witness ==
    /\ out.op = "registerService"
    /\ calls = 2
    /\ \E k \in Handlers(out.i) : DOMAIN ep[out.i].handlers[k].usnToURL # {}
    /\ \E k \in Handlers(out.i) : ep[out.i].handlers[k].lastTimeNotify > 0

(* ------------------------------------------------------------------ *)
(* C16                                                                 *)
(* ------------------------------------------------------------------ *)

\* the steps that read or write the shared state of an object: every step
\* of a handler thread, every public call, and the destructor
TouchesSharedState ==
    \/ out.op \in {"loop", "recvError", "recv", "sweep", "exit"}
    \/ out.op \in {"registerService", "enablePeriodicSearch",
                   "enablePeriodicNotify", "getServerURLs"}
    \/ out.op = "release" /\ ep[out.i].life \in {"dtor", "destroyed"}
    \/ out.op = "join"

\* C16: every read or write of the shared mutable state, the shutdown flag
\* and the handler collection included, is made by a thread that holds the
\* shared lock.
C16_AllAccessUnderLock == TouchesSharedState => out.locked

(* ------------------------------------------------------------------ *)
(* C17                                                                 *)
(* ------------------------------------------------------------------ *)

\* an accepted alive announcement or search response that carries a USN and
\* a location
IsAlive(header) ==
    /\ \/ getLine0(header) = "NOTIFY * HTTP/1.1"
            /\ getField(header, "NT") = <<SOAPY_REMOTE_TARGET>>
       \/ getLine0(header) = "HTTP/1.1 200 OK"
            /\ getField(header, "ST") = <<SOAPY_REMOTE_TARGET>>
    /\ getField(header, "USN") # << >>
    /\ getField(header, "NTS") # NTS_BYEBYE
    /\ getField(header, "LOCATION") # << >>

\* the cache duration of a message: its max-age when present and well
\* formed, else the default
CacheDuration(header) ==
    LET cc == getField(header, "CACHE-CONTROL")
    IN  IF Malformed(cc) THEN CACHE_DURATION_SECONDS
        ELSE digitsValue(AfterEquals(cc), 0, 0)

\* the entry the message of the last receive step must have left
ExpectedEntry ==
    <<toString(SoapyURL("tcp", parseURL(out.arg[2]).node,
                        parseURL(getField(out.arg[1], "LOCATION")).service)),
      now + CacheDuration(out.arg[1])>>

\* C17: after a handler accepts an alive announcement or search response
\* with USN u and a location, received from address a at time t, its cache
\* holds for u the locator made of the host of a and the port of the
\* location, with expiry t plus the cache duration.
C17_AcceptedEntryStored ==
    out.op = "recv" /\ IsAlive(out.arg[1]) =>
        LET cache == ep[out.i].handlers[out.k].usnToURL
            u     == getField(out.arg[1], "USN")
        IN  /\ u \in DOMAIN cache
            /\ cache[u] = ExpectedEntry

(* ------------------------------------------------------------------ *)
(* C18                                                                 *)
(* ------------------------------------------------------------------ *)

\* C18: while no service is registered no step of the node sends a notify
\* announcement or a search response, and no handler's lastTimeNotify has
\* moved from its initial value.
C18_SilentWhileUnregistered ==
    /\ out.i # 0 /\ ~ep[out.i].serviceRegistered =>
           \A n \in DOMAIN out.sent :
               getLine0(out.sent[n].hdr) \notin
                   {"NOTIFY * HTTP/1.1", "HTTP/1.1 200 OK"}
    /\ \A i \in Instances : \A k \in Handlers(i) :
           ~ep[i].serviceRegistered =>
               /\ ep[i].handlers[k].lastTimeNotify =
                      SoapySSDPEndpointData.lastTimeNotify
               /\ ep[i].handlers[k].byes = 0

\* periodic notify is switched on at a later time for a node with no
\* service registered: nothing is sent
C18_Witness ==
    /\ out.op = "enablePeriodicNotify"
    /\ out.arg = <<TRUE>>
    /\ ~ep[out.i].serviceRegistered
    /\ Len(ep[out.i].handlers) > 0
    /\ now > 0
    /\ \A n \in DOMAIN out.sent :
           getLine0(out.sent[n].hdr) # "NOTIFY * HTTP/1.1"

(* ------------------------------------------------------------------ *)
(* C19                                                                 *)
(* ------------------------------------------------------------------ *)

\* Drop: one object, registered or not, whose handlers receive every kind
\* of datagram
NextDrop ==
    \/ GetInstance("c1", 1, {0})
    \/ RegisterService("c1", 1)
    \/ \E i \in Instances : \E k \in Handlers(i) : HandlerLoop(i, k)
    \/ \E i \in Instances : \E k \in Handlers(i) :
            HandlerRecv(i, k, InHeaders, MaxRecv)
    \/ \E i \in Instances : \E k \in Handlers(i) : HandlerSweep(i, k)

SpecDrop == Init /\ [][NextDrop]_vars

\* a datagram that node e drops: unmatched start line, search request with
\* wrong discovery manner or search target, search response or notify for
\* another target, missing USN, or missing location on a message that is
\* not a byebye
Dropped(e, header) ==
    LET line0  == getLine0(header)
        learns == line0 \in {"HTTP/1.1 200 OK", "NOTIFY * HTTP/1.1"}
    IN  \/ line0 \notin {"M-SEARCH * HTTP/1.1", "HTTP/1.1 200 OK",
                         "NOTIFY * HTTP/1.1"}
        \/ line0 = "M-SEARCH * HTTP/1.1" /\ ~ForThisNode(e, header)
        \/ line0 = "HTTP/1.1 200 OK"
               /\ getField(header, "ST") # <<SOAPY_REMOTE_TARGET>>
        \/ line0 = "NOTIFY * HTTP/1.1"
               /\ getField(header, "NT") # <<SOAPY_REMOTE_TARGET>>
        \/ learns /\ getField(header, "USN") = << >>
        \/ learns /\ getField(header, "NTS") # NTS_BYEBYE
                  /\ getField(header, "LOCATION") = << >>

C19_Step ==
    out'.op = "recv" /\ Dropped(ep[out'.i], out'.arg[1]) =>
        /\ out'.sent = << >>
        /\ \A i \in Instances : \A k \in Handlers(i) :
               ep'[i].handlers[k].usnToURL = ep[i].handlers[k].usnToURL
        /\ ep' = [ep EXCEPT ![out'.i].handlers[out'.k].pc = "sweep"]
        /\ aborted' = aborted

\* C19: a received datagram that is dropped changes no cache entry of any
\* handler and causes no message to be sent.
C19_DroppedHasNoEffect == [][C19_Step]_vars

\* a registered node whose handler holds an entry has dropped a notify for
\* another notification type
C19_Witness ==
    /\ out.op = "recv"
    /\ Dropped(ep[out.i], out.arg[1])
    /\ getLine0(out.arg[1]) = "NOTIFY * HTTP/1.1"
    /\ getField(out.arg[1], "NT") = <<"upnp:rootdevice">>
    /\ ep[out.i].serviceRegistered
    /\ DOMAIN ep[out.i].handlers[out.k].usnToURL # {}


\* ---------------------------------------------------------------------
\* Two endpoints on one multicast group: X = ep[1] announces, Y = ep[2]
\* listens.  Each is its own process with one IPv4 handler; X's client has
\* called registerService and enablePeriodicNotify(true) at time 0.

X == 1

Y == 2

MaxRounds == 4

XService == << <<"U1">>, "9999" >>

\* X as Y's socket sees it: the locator handleRegisterService stores
XLocator == toString(SoapyURL("tcp", "192.168.1.5", XService[2]))

InitPeers ==
    LET hs == construct({}, FALSE, 0, 0, 0, 0).handlers
        e0 == [NewEndpoint EXCEPT !.handlers = hs]
        x  == enablePeriodicNotify(
                  Call(registerService(e0, XService[1], XService[2])), TRUE, 0)
    IN  /\ now = 0
        /\ ticks = 0
        /\ recvs = 0
        /\ calls = 0
        /\ epWeak = 0
        /\ useCount = [i \in Instances |-> 1]
        /\ built = MaxInst
        /\ blacklistedGroups = {}
        /\ held = [c \in Clients |-> IF c = "c1" THEN X ELSE Y]
        /\ ep = [i \in Instances |-> IF i = X THEN x.e ELSE e0]
        /\ mutex = [i \in Instances |-> "free"]
        /\ aborted = FALSE
        /\ out = [Event("enablePeriodicNotify", X, 0) EXCEPT
                     !.arg = <<TRUE>>, !.sent = x.sent, !.locked = TRUE]

\* selectRecv returns ready on handler k of endpoint i with a datagram that
\* endpoint `from` has just sent to the handler's group, and the locked
\* block of the iteration receives and dispatches it
PeerRecv(i, k, from) ==
    /\ HandlerAt(i, k, "loop")
    /\ ~ep[i].done
    /\ mutex[i] = "free"
    /\ out.i = from
    /\ recvs' = recvs + 1
    /\ \E n \in DOMAIN out.sent :
         /\ out.sent[n].to = ep[i].handlers[k].groupURL
         /\ LET header == out.sent[n].hdr
                recvAddr == SourceAddr(ep[i].handlers[k].ipVer)
                x == dispatch(Call(ep[i]), k, header, recvAddr, now)
            IN  /\ ep' = [ep EXCEPT ![i] =
                             [x.e EXCEPT !.handlers[k].pc =
                                 IF x.threw THEN "recv" ELSE "sweep"]]
                /\ aborted' = x.threw
                /\ out' = [Event("recv", i, k) EXCEPT
                              !.arg = <<header, recvAddr>>, !.sent = x.sent,
                              !.locked = TRUE]
    /\ mutex' = [mutex EXCEPT ![i] = "free"]
    /\ UNCHANGED <<now, ticks, calls, singleton>>

\* selectRecv times out: the iteration goes straight to the sweep
SelectTimeout(i, k) ==
    /\ HandlerLoop(i, k)
    /\ ep'[i].handlers[k].pc = "sweep"

\* One round per clock advance, every step as prompt as it can be: X's
\* handler iterates, what it sent reaches Y's handler in the same instant,
\* Y's handler sweeps, then Y's client queries.
NextPeers ==
    \/ out.op = "getServerURLs" /\ Tick(MaxRounds)
    \/ out.op = "tick" /\ SelectTimeout(X, 1)
    \/ HandlerSweep(X, 1)
    \/ out.i = X /\ out.op \in {"sweep", "enablePeriodicNotify"}
                 /\ out.sent # << >> /\ PeerRecv(Y, 1, X)
    \/ out.i = X /\ out.op = "sweep" /\ out.sent = << >> /\ SelectTimeout(Y, 1)
    \/ HandlerSweep(Y, 1)
    \/ out.i = Y /\ out.op = "sweep" /\ GetServerURLs("c2", IpVers)

SpecPeers == InitPeers /\ [][NextPeers]_vars

\* X is registered, announcing periodically and not departing
XAnnouncing ==
    /\ ep[X].life = "live" /\ ~ep[X].done
    /\ ep[X].serviceRegistered /\ ep[X].periodicNotifyEnabled

\* C20: with X registered and announcing periodically and no datagram lost,
\* every query at Y made after Y has received X's announcement, for an
\* address family that covers X's, returns X's locator.
C20_PeerStaysPresent ==
    (/\ out.op = "getServerURLs" /\ out.i = Y
     /\ recvs >= 1
     /\ XAnnouncing
     /\ (out.arg[1] = 4 \/ ~out.arg[2]))
        => \E n \in DOMAIN out.ret : out.ret[n] = XLocator

=============================================================================
